---- MODULE Spec2Model ----
(***************************************************************************)
(* scanimg: the bounded-concurrency promise pool (src/src/promise-pool.js), *)
(* the remote and local metadata probers (src/src/metadata.js) and the run  *)
(* that aggregates their records into report rows (src/unnamed/part_002).   *)
(*                                                                         *)
(* A JavaScript value that may be null is modelled as a sequence of length *)
(* at most one: <<>> is null, <<v>> is the value v.                         *)
(***************************************************************************)
EXTENDS Integers, Sequences, FiniteSets, TLC

\* ------------------------------------------------------------------ bounds
MaxItems == 3
MaxLimit == 2
MaxTargets == 2
MaxFiles == 3

\* opaque items handed to promisePool, and the outputs an iterator may give
ItemIds == {"a", "b"}
IteratorOutputs == {"x", "y"}
Limits == -1 .. MaxLimit

Null == <<>>
Some(v) == <<v>>

RECURSIVE SeqsUpTo(_, _)
SeqsUpTo(S, n) ==
    IF n = 0 THEN {<<>>}
    ELSE LET shorter == SeqsUpTo(S, n - 1)
         IN shorter \cup {Append(s, x) : s \in {t \in shorter : Len(t) = n - 1}, x \in S}

VARIABLES
    items,        \* promisePool: the `items` argument
    concurrency,  \* promisePool: the `concurrency` argument
    poolPc,       \* where the async function promisePool stands
    idx,          \* how many items the for-of loop has taken
    promise,      \* promise[i]: state of the `promise` created for items[i]
    value,        \* value[i]: the fulfilment value of promise[i], Null before
    results,      \* promisePool: the `results` array (of promises, by item index)
    eState,       \* eState[i]: state of the derived promise `e` of items[i]
    executing,    \* promisePool: the `executing` array (of e's, by item index)
    racing,       \* the members of the Promise.race being awaited
    race,         \* state of the Promise.race being awaited
    output,       \* the array promisePool's promise fulfilled with
    settled,      \* history: item indices in the order their workers settled
    probe,        \* probe[i]: the state of the i-th metadata probe (see NewProbe)
    targetMap,    \* run: the collected targets, in insertion order of the Map
    options,      \* run: the parsed options (concurrency)
    runPc,        \* where the async function run stands
    rows,         \* run: the sorted rows handed to renderTable
    files,        \* collectImageTargets: the files walkFiles found, in order
    scanned       \* collectImageTargets: how many of them have been scanned

poolVars == <<items, concurrency, poolPc, idx, promise, value, results,
              eState, executing, racing, race, output, settled>>

runVars == <<targetMap, options, runPc, rows, files, scanned>>

vars == <<poolVars, probe, runVars>>

\* ------------------------------------------------------- array primitives
\* Array.prototype.indexOf, 1-based; 0 stands for JavaScript's -1
IndexOf(arr, x) ==
    IF \E k \in 1..Len(arr) : arr[k] = x
    THEN CHOOSE k \in 1..Len(arr) : arr[k] = x /\ \A j \in 1..(k - 1) : arr[j] # x
    ELSE 0

\* arr.splice(k, 1) with k the result of indexOf: -1 removes the last element
Splice(arr, k) ==
    LET at == IF k = 0 THEN Len(arr) ELSE k
    IN IF Len(arr) = 0 THEN arr
       ELSE SubSeq(arr, 1, at - 1) \o SubSeq(arr, at + 1, Len(arr))

ResultsUnshift(rs, p) == <<p>> \o rs
\* results.push(promise)
ResultsPush(rs, p) == Append(rs, p)

PoolIsFullOffByOne(len, limit) == len > limit
\* executing.length >= concurrency
PoolIsFull(len, limit) == len >= limit

BoundedFromZero(limit) == limit >= 0
\* if (concurrency > 0): only a positive limit makes the pool track and wait
ConcurrencyIsBounded(limit) == limit > 0

RaceNeverSettles(r, members, i, outcome) == r
\* Promise.race(executing) settles as its first member to settle does
RaceSettle(r, members, i, outcome) ==
    IF r = "pending" /\ i \in members THEN outcome ELSE r

\* the value an iterator call on `item` resolves with
IteratorResult(item, out) == [item |-> item, out |-> out]

\* ------------------------------------------------------------ promisePool
PoolInit ==
    /\ items \in SeqsUpTo(ItemIds, MaxItems)
    /\ concurrency \in Limits
    /\ poolPc = "loop"
    /\ idx = 0
    /\ promise = [i \in 1..Len(items) |-> "none"]
    /\ value = [i \in 1..Len(items) |-> Null]
    /\ results = <<>>
    /\ eState = [i \in 1..Len(items) |-> "none"]
    /\ executing = <<>>
    /\ racing = {}
    /\ race = "none"
    /\ output = <<>>
    /\ settled = <<>>

\* one iteration of the for-of loop, up to its await or to the next iteration
PoolLoopBody ==
    /\ poolPc = "loop"
    /\ idx < Len(items)
    /\ LET i == idx + 1
           tracked == Append(executing, i)
       IN /\ idx' = i
          /\ promise' = [promise EXCEPT ![i] = "queued"]
          /\ results' = ResultsPush(results, i)
          /\ IF ConcurrencyIsBounded(concurrency)
             THEN /\ eState' = [eState EXCEPT ![i] = "pending"]
                  /\ executing' = tracked
                  /\ IF PoolIsFull(Len(tracked), concurrency)
                     THEN /\ poolPc' = "await"
                          /\ racing' = {tracked[k] : k \in 1..Len(tracked)}
                          /\ race' = IF \E k \in 1..Len(tracked) : eState'[tracked[k]] = "rejected"
                                     THEN "rejected" ELSE "pending"
                     ELSE UNCHANGED <<poolPc, racing, race>>
             ELSE UNCHANGED <<eState, executing, poolPc, racing, race>>
    /\ UNCHANGED <<items, concurrency, value, output, settled>>

\* the loop is exhausted: return Promise.all(results)
PoolLoopExit ==
    /\ poolPc = "loop"
    /\ idx = Len(items)
    /\ poolPc' = "all"
    /\ UNCHANGED <<items, concurrency, idx, promise, value, results, eState,
                   executing, racing, race, output, settled>>

\* await Promise.race(executing) resumes with a fulfilled race
PoolResume ==
    /\ poolPc = "await"
    /\ race = "fulfilled"
    /\ poolPc' = "loop"
    /\ race' = "none"
    /\ racing' = {}
    /\ UNCHANGED <<items, concurrency, idx, promise, value, results, eState,
                   executing, output, settled>>

\* await Promise.race(executing) throws: the async function rejects
PoolRaceThrow ==
    /\ poolPc = "await"
    /\ race = "rejected"
    /\ poolPc' = "rejected"
    /\ UNCHANGED <<items, concurrency, idx, promise, value, results, eState,
                   executing, racing, race, output, settled>>

\* Promise.all(results) fulfils with the values in array order
PoolAllFulfil ==
    /\ poolPc = "all"
    /\ \A k \in 1..Len(results) : promise[results[k]] = "fulfilled"
    /\ output' = [k \in 1..Len(results) |-> value[results[k]][1]]
    /\ poolPc' = "returned"
    /\ UNCHANGED <<items, concurrency, idx, promise, value, results, eState,
                   executing, racing, race, settled>>

\* Promise.all(results) rejects as soon as one of its promises is rejected
PoolAllReject ==
    /\ poolPc = "all"
    /\ \E k \in 1..Len(results) : promise[results[k]] = "rejected"
    /\ poolPc' = "rejected"
    /\ UNCHANGED <<items, concurrency, idx, promise, value, results, eState,
                   executing, racing, race, output, settled>>

\* the loop runs synchronously from one await to the next: no reaction and no
\* worker step runs while promisePool itself is on the stack
PoolYielded == poolPc # "loop"

AnyQueuedFirst(i) == TRUE
\* the reactions of Promise.resolve().then(...) run in the order they were queued
QueuedFirst(i) == \A j \in 1..(i - 1) : promise[j] # "queued"

\* Promise.resolve().then(() => iterator(item)): the microtask calls the iterator
IteratorCall(i) ==
    /\ PoolYielded
    /\ promise[i] = "queued"
    /\ QueuedFirst(i)
    /\ promise' = [promise EXCEPT ![i] = "running"]
    /\ UNCHANGED <<items, concurrency, poolPc, idx, value, results, eState,
                   executing, racing, race, output, settled>>

\* the iterator's promise fulfils with v
IteratorReturn(i, v) ==
    /\ PoolYielded
    /\ promise[i] = "running"
    /\ promise' = [promise EXCEPT ![i] = "fulfilled"]
    /\ value' = [value EXCEPT ![i] = Some(v)]
    /\ UNCHANGED <<items, concurrency, poolPc, idx, results, eState,
                   executing, racing, race, output>>

\* the iterator throws, or its promise rejects
IteratorThrow(i) ==
    /\ PoolYielded
    /\ promise[i] = "running"
    /\ promise' = [promise EXCEPT ![i] = "rejected"]
    /\ UNCHANGED <<items, concurrency, poolPc, idx, value, results, eState,
                   executing, racing, race, output>>

\* e = promise.then(() => executing.splice(executing.indexOf(e), 1)):
\* the reaction runs only on fulfilment; on rejection e rejects and stays tracked
ExecutingSettle(i) ==
    /\ PoolYielded
    /\ eState[i] = "pending"
    /\ promise[i] \in {"fulfilled", "rejected"}
    /\ eState' = [eState EXCEPT ![i] = promise[i]]
    /\ executing' = IF promise[i] = "fulfilled"
                    THEN Splice(executing, IndexOf(executing, i))
                    ELSE executing
    /\ race' = RaceSettle(race, racing, i, promise[i])
    /\ UNCHANGED <<items, concurrency, poolPc, idx, promise, value, results,
                   racing, output, settled>>

\* ---------------------------------------------------- header-value parsing
\* Header values are sequences of one-character strings, so that the parsers
\* below work on the text as the code's Number() and regular expression do.
Digit == {"0", "1", "2", "3", "4", "5", "6", "7", "8", "9"}
Whitespace == {" ", "\t"}

DigitValue(c) ==
    CASE c = "0" -> 0 [] c = "1" -> 1 [] c = "2" -> 2 [] c = "3" -> 3 [] c = "4" -> 4
      [] c = "5" -> 5 [] c = "6" -> 6 [] c = "7" -> 7 [] c = "8" -> 8 [] c = "9" -> 9

RECURSIVE DigitsValue(_)
DigitsValue(ds) ==
    IF Len(ds) = 0 THEN 0
    ELSE 10 * DigitsValue(SubSeq(ds, 1, Len(ds) - 1)) + DigitValue(ds[Len(ds)])

AllIn(s, S) == \A k \in 1..Len(s) : s[k] \in S

RECURSIVE TrimLeft(_)
TrimLeft(s) ==
    IF Len(s) > 0 /\ s[1] \in Whitespace THEN TrimLeft(Tail(s)) ELSE s

RECURSIVE TrimRight(_)
TrimRight(s) ==
    IF Len(s) > 0 /\ s[Len(s)] \in Whitespace
    THEN TrimRight(SubSeq(s, 1, Len(s) - 1)) ELSE s

Finite(n) == [kind |-> "finite", n |-> n]
NotANumber == [kind |-> "NaN", n |-> 0]
Infinite == [kind |-> "Infinity", n |-> 0]

\* Number(string) on the header texts of this model: surrounding white space
\* is dropped, the empty text is 0, an optionally signed run of digits is its
\* value, [+-]Infinity is infinite and anything else is NaN.
JsNumber(text) ==
    LET t == TrimRight(TrimLeft(text))
        signed == Len(t) > 0 /\ t[1] \in {"+", "-"}
        body == IF signed THEN Tail(t) ELSE t
    IN IF Len(t) = 0 THEN Finite(0)
       ELSE IF Len(body) > 0 /\ AllIn(body, Digit)
            THEN Finite(IF signed /\ t[1] = "-" THEN 0 - DigitsValue(body) ELSE DigitsValue(body))
       ELSE IF body = <<"I", "n", "f", "i", "n", "i", "t", "y">> THEN Infinite
       ELSE NotANumber

\* parseNumber: null for an absent header or a non-finite number
parseNumber(v) ==
    IF v = Null THEN Null
    ELSE LET parsed == JsNumber(v[1])
         IN IF parsed.kind = "finite" THEN Some(parsed.n) ELSE Null

\* contentRange.match(/\/(\d+)\s*$/): the digits captured, <<>> without a match
MatchTotal(text) ==
    LET hits == {k \in 1..Len(text) :
                    /\ text[k] = "/"
                    /\ \E m \in (k + 1)..Len(text) :
                        /\ AllIn(SubSeq(text, k + 1, m), Digit)
                        /\ AllIn(SubSeq(text, m + 1, Len(text)), Whitespace)}
    IN IF hits = {} THEN <<>>
       ELSE LET k == CHOOSE h \in hits : \A g \in hits : h <= g
                m == CHOOSE e \in (k + 1)..Len(text) :
                        /\ AllIn(SubSeq(text, k + 1, e), Digit)
                        /\ AllIn(SubSeq(text, e + 1, Len(text)), Whitespace)
                        /\ \A f \in (e + 1)..Len(text) : text[f] \notin Digit
            IN SubSeq(text, k + 1, m)

\* parseTotalFromContentRange
parseTotalFromContentRange(contentRange) ==
    IF contentRange = Null \/ contentRange[1] = <<>> THEN Null
    ELSE LET digits == MatchTotal(contentRange[1])
         IN IF Len(digits) > 0 THEN Some(DigitsValue(digits)) ELSE Null

\* ------------------------------------------------- what the probes can meet
CL_1048576 == <<"1", "0", "4", "8", "5", "7", "6">>
CL_2048 == <<"2", "0", "4", "8">>
CL_Empty == <<>>
CL_Text == <<"a", "b", "c">>
CL_Negative == <<"-", "5">>
CR_Total4096 == <<"b", "y", "t", "e", "s", " ", "0", "-", "9", "/", "4", "0", "9", "6">>
CR_Star == <<"b", "y", "t", "e", "s", " ", "0", "-", "9", "/", "*">>

Response(status, cl, cr) ==
    [status |-> status, headers |-> [contentLength |-> cl, contentRange |-> cr]]

HeadLengths == {Null, Some(CL_1048576), Some(CL_Empty), Some(CL_Text), Some(CL_Negative)}
GetLengths == {Null, Some(CL_2048), Some(CL_Text)}
GetRanges == {Null, Some(CR_Total4096), Some(CR_Star)}
HeadResponses == {Response(s, cl, Null) : s \in {200, 404}, cl \in HeadLengths}
GetResponses ==
    {Response(s, cl, cr) : s \in {200, 203, 206, 404}, cl \in GetLengths, cr \in GetRanges}

\* what a rejected fetch, body read or stat carries
AbortError == [name |-> "AbortError", message |-> "This operation was aborted", code |-> "ABORT_ERR"]
TransportErrors == {[name |-> "TypeError", message |-> "fetch failed", code |-> "UND_ERR"]}
StatErrors ==
    {[name |-> "Error", message |-> "no such file or directory", code |-> "ENOENT"],
     [name |-> "Error", message |-> "permission denied", code |-> "EACCES"]}
StatResults ==
    {[isFile |-> TRUE, size |-> 512], [isFile |-> TRUE, size |-> 0],
     [isFile |-> FALSE, size |-> 4096]}

\* what imageSize() does: returns an object whose width and height may be
\* undefined (Null), or throws
Dimensions(w, h) == [kind |-> "dimensions", width |-> w, height |-> h, message |-> ""]
DecodeOutcomes ==
    {Dimensions(Some(10), Some(20)), Dimensions(Null, Null),
     Dimensions(Some(10), Null), Dimensions(Null, Some(20)),
     [kind |-> "throw", width |-> Null, height |-> Null, message |-> "unsupported file type"]}

\* ----------------------------------------------------------- probe records
\* result: the record the prober returns; statusMessages: its local array;
\* timer/aborted: the deadline timer and the abort signal of each
\* fetchWithTimeout call (none, armed, fired, cleared); net: the network calls
\* in flight; calls, bodyReads, decodes:
\* history of the network calls issued, of arrayBuffer() and of imageSize();
\* headSeen .. decodeSeen: history of how each call settled.
NewProbe(kind, request) ==
    [kind |-> kind, pc |-> "init",
     result |-> [target |-> request, size |-> Null, status |-> "Unknown",
                 width |-> Null, height |-> Null],
     statusMessages |-> <<>>,
     timer |-> [HEAD |-> "none", GET |-> "none"],
     aborted |-> [HEAD |-> FALSE, GET |-> FALSE], net |-> {},
     calls |-> <<>>, bodyReads |-> 0, decodes |-> 0,
     headSeen |-> Null, getSeen |-> Null, bodySeen |-> Null,
     statSeen |-> Null, decodeSeen |-> Null]

\* history: how a call settled (a response, a stat result or an error) 
NoResponse == [status |-> 0, headers |-> [contentLength |-> Null, contentRange |-> Null]]
NoError == [name |-> "", message |-> "", code |-> ""]
NoStat == [isFile |-> FALSE, size |-> 0]
Responded(res) == [ev |-> "response", res |-> res, error |-> NoError, stat |-> NoStat]
Rejected(error) == [ev |-> "error", res |-> NoResponse, error |-> error, stat |-> NoStat]
Stated(stat) == [ev |-> "stat", res |-> NoResponse, error |-> NoError, stat |-> stat]

RECURSIVE Join(_, _)
\* Array.prototype.join
Join(msgs, sep) ==
    IF Len(msgs) = 0 THEN ""
    ELSE IF Len(msgs) = 1 THEN msgs[1]
    ELSE msgs[1] \o sep \o Join(Tail(msgs), sep)

Push(p, token) == [p EXCEPT !.statusMessages = Append(@, token)]

\* result.status = statusMessages.join('; ') || 'Unknown'; return result
Finalize(p) ==
    LET joined == Join(p.statusMessages, "; ")
    IN [p EXCEPT !.result.status = IF joined = "" THEN "Unknown" ELSE joined,
                 !.pc = "done"]

\* an exception leaves the prober: its promise rejects
Escape(p) == [p EXCEPT !.pc = "threw"]

ResOk(res) == res.status \in 200..299

HeadersGet(res, name) ==
    IF name = "content-length" THEN res.headers.contentLength
    ELSE IF name = "content-range" THEN res.headers.contentRange
    ELSE Null

\* fetchWithTimeout up to its await: a fresh controller, the timer armed, the
\* request issued
FetchStart(p, method, pc) ==
    [p EXCEPT !.pc = pc, !.timer[method] = "armed", !.aborted[method] = FALSE,
              !.net = @ \cup {method}, !.calls = Append(@, method)]

FetchSettleKeepsTimer(p, method) == [p EXCEPT !.net = @ \ {method}]
\* fetchWithTimeout once fetchImpl has settled: finally { clearTimeout(timer) }
FetchSettle(p, method) ==
    [p EXCEPT !.timer[method] = IF @ = "armed" THEN "cleared" ELSE @,
              !.net = @ \ {method}]

ErrorTokenByTimeoutName(phase, error) ==
    IF error.name = "TimeoutError" THEN phase \o " timeout"
    ELSE phase \o " failed: " \o error.message
\* error.name === 'AbortError' ? '<phase> timeout' : `<phase> failed: ${error.message}`
ErrorToken(phase, error) ==
    IF error.name = "AbortError" THEN phase \o " timeout"
    ELSE phase \o " failed: " \o error.message

EitherFinite(w, h) == w # Null \/ h # Null
\* Number.isFinite(width) && Number.isFinite(height)
BothFinite(w, h) == w # Null /\ h # Null

\* try { imageSize(...) ... } catch { ... }, the same in both probers
Decode(p, outcome) ==
    LET q == [p EXCEPT !.decodes = @ + 1]
    IN IF outcome.kind = "throw"
       THEN Push(q, "Failed to parse resolution: " \o outcome.message)
       ELSE IF BothFinite(outcome.width, outcome.height)
            THEN [q EXCEPT !.result.width = outcome.width,
                           !.result.height = outcome.height]
            ELSE Push(q, "Failed to parse resolution")

\* ------------------------------------------------- getRemoteImageMetadata
\* the ranged GET is issued
GetPhase(p) == FetchStart(p, "GET", "get")

\* the HEAD response arrived
HeadResolved(p, res) ==
    GetPhase(
        IF ResOk(res)
        THEN LET parsedLength == parseNumber(HeadersGet(res, "content-length"))
                 q == Push(p, "OK(HEAD)")
             IN IF parsedLength # Null
                THEN [q EXCEPT !.result.size = parsedLength]
                ELSE q
        ELSE Push(p, "HEAD " \o ToString(res.status)))

HeadRejectedReturns(p, error) == Finalize(Push(p, ErrorToken("HEAD", error)))
\* the HEAD call rejected: catch, then on to the GET phase
HeadRejected(p, error) == GetPhase(Push(p, ErrorToken("HEAD", error)))

SizeFromGetPreferLength(size, res) ==
    LET total == parseTotalFromContentRange(HeadersGet(res, "content-range"))
        parsedLength == parseNumber(HeadersGet(res, "content-length"))
    IN IF size # Null THEN size
       ELSE IF parsedLength # Null THEN parsedLength
       ELSE IF total # Null THEN total
       ELSE size
SizeFromGetOverwrites(size, res) ==
    LET total == parseTotalFromContentRange(HeadersGet(res, "content-range"))
        parsedLength == parseNumber(HeadersGet(res, "content-length"))
    IN IF total # Null THEN total
       ELSE IF res.status = 200 /\ parsedLength # Null THEN parsedLength
       ELSE size
\* if (result.size == null) { ... }: the size after the GET response
SizeFromGet(size, res) ==
    IF size = Null
    THEN LET total == parseTotalFromContentRange(HeadersGet(res, "content-range"))
             parsedLength == parseNumber(HeadersGet(res, "content-length"))
         IN IF total # Null THEN total
            ELSE IF res.status = 200 /\ parsedLength # Null THEN parsedLength
            ELSE size
    ELSE size

GetResolvedFallsThrough(p, res) ==
    LET q == Push(p, IF ~ResOk(res) THEN "GET " \o ToString(res.status)
                     ELSE IF res.status = 206 THEN "OK(Range)" ELSE "OK(GET)")
    IN [q EXCEPT !.result.size = SizeFromGet(@, res),
                 !.pc = "body", !.bodyReads = @ + 1]
\* the GET response arrived
GetResolved(p, res) ==
    IF ~ResOk(res)
    THEN Finalize(Push(p, "GET " \o ToString(res.status)))
    ELSE LET q == Push(p, IF res.status = 206 THEN "OK(Range)" ELSE "OK(GET)")
         IN [q EXCEPT !.result.size = SizeFromGet(@, res),
                      !.pc = "body", !.bodyReads = @ + 1]

\* the body arrived: decode its header and return
BodyResolved(p, outcome) == Finalize(Decode(p, outcome))

GetRejectedRethrows(p, error) == Escape(p)
\* the GET call or the body read rejected: catch, finalize, return
GetRejected(p, error) == Finalize(Push(p, ErrorToken("GET", error)))

\* -------------------------------------------------- getLocalImageMetadata
StatResolvedNoDefault(p, stat, outcome) ==
    IF ~stat.isFile
    THEN Finalize(Push(p, "Not a file"))
    ELSE Finalize(Decode([p EXCEPT !.result.size = Some(stat.size)], outcome))

StatResolvedSizeAfterDecode(p, stat, outcome) ==
    IF ~stat.isFile
    THEN Finalize(Push(p, "Not a file"))
    ELSE LET q == Decode(p, outcome)
         IN IF Len(q.statusMessages) = 0
            THEN Finalize(Push([q EXCEPT !.result.size = Some(stat.size)], "OK(file)"))
            ELSE Finalize(q)

\* fs.promises.stat resolved
StatResolved(p, stat, outcome) ==
    IF ~stat.isFile
    THEN Finalize(Push(p, "Not a file"))
    ELSE LET q == Decode([p EXCEPT !.result.size = Some(stat.size)], outcome)
         IN Finalize(IF Len(q.statusMessages) = 0 THEN Push(q, "OK(file)") ELSE q)

StatRejectedAsAccessFailure(p, error) ==
    Finalize(Push(p, IF error.code # "ENOENT" THEN "File not found"
                     ELSE "File access failed: " \o error.message))

\* fs.promises.stat rejected
StatRejected(p, error) ==
    Finalize(Push(p, IF error.code = "ENOENT" THEN "File not found"
                     ELSE "File access failed: " \o error.message))

\* ------------------------------------------------------- the probes' steps
ProbeIds == DOMAIN probe

\* the two network calls of a remote probe
Methods == {"HEAD", "GET"}

AbortEveryCall(pr, i, method) ==
    [j \in DOMAIN pr |->
        [pr[j] EXCEPT !.timer[method] = IF j = i THEN "fired" ELSE @,
                      !.aborted = [m \in Methods |-> @[m] \/ m \in pr[j].net]]]
\* () => controller.abort(): the timer of one call aborts that call's own signal
Abort(pr, i, method) ==
    [pr EXCEPT ![i].timer[method] = "fired", ![i].aborted[method] = TRUE]

RemoteBegin(i) ==
    /\ probe[i].kind = "remote"
    /\ probe[i].pc = "init"
    /\ probe' = [probe EXCEPT ![i] = FetchStart(@, "HEAD", "head")]

LocalBegin(i) ==
    /\ probe[i].kind = "local"
    /\ probe[i].pc = "init"
    /\ probe' = [probe EXCEPT ![i].pc = "stat"]

\* setTimeout(() => controller.abort(), timeout) fires
TimerFires(i) ==
    \E method \in Methods :
        /\ probe[i].timer[method] = "armed"
        /\ probe' = Abort(probe, i, method)

HeadResponds(i, res) ==
    /\ probe[i].pc = "head"
    /\ ~probe[i].aborted.HEAD
    /\ probe' = [probe EXCEPT ![i] =
            HeadResolved(FetchSettle([@ EXCEPT !.headSeen = Some(Responded(res))], "HEAD"), res)]

HeadFails(i, error) ==
    /\ probe[i].pc = "head"
    /\ ~probe[i].aborted.HEAD
    /\ probe' = [probe EXCEPT ![i] =
            HeadRejected(FetchSettle([@ EXCEPT !.headSeen = Some(Rejected(error))], "HEAD"), error)]

HeadAborts(i) ==
    /\ probe[i].pc = "head"
    /\ probe[i].aborted.HEAD
    /\ probe' = [probe EXCEPT ![i] =
            HeadRejected(FetchSettle([@ EXCEPT !.headSeen = Some(Rejected(AbortError))], "HEAD"),
                         AbortError)]

GetResponds(i, res) ==
    /\ probe[i].pc = "get"
    /\ ~probe[i].aborted.GET
    /\ probe' = [probe EXCEPT ![i] =
            GetResolved(FetchSettle([@ EXCEPT !.getSeen = Some(Responded(res))], "GET"), res)]

GetFails(i, error) ==
    /\ probe[i].pc = "get"
    /\ ~probe[i].aborted.GET
    /\ probe' = [probe EXCEPT ![i] =
            GetRejected(FetchSettle([@ EXCEPT !.getSeen = Some(Rejected(error))], "GET"), error)]

GetAborts(i) ==
    /\ probe[i].pc = "get"
    /\ probe[i].aborted.GET
    /\ probe' = [probe EXCEPT ![i] =
            GetRejected(FetchSettle([@ EXCEPT !.getSeen = Some(Rejected(AbortError))], "GET"),
                        AbortError)]

\* rangeRes.arrayBuffer() resolved
BodyArrives(i, outcome) ==
    /\ probe[i].pc = "body"
    /\ probe' = [probe EXCEPT ![i] =
            BodyResolved([@ EXCEPT !.bodySeen = Some(Responded(NoResponse)),
                                   !.decodeSeen = Some(outcome)], outcome)]

\* rangeRes.arrayBuffer() rejected
BodyFails(i, error) ==
    /\ probe[i].pc = "body"
    /\ probe' = [probe EXCEPT ![i] =
            GetRejected([@ EXCEPT !.bodySeen = Some(Rejected(error))], error)]

StatResolves(i, stat, outcome) ==
    /\ probe[i].pc = "stat"
    /\ probe' = [probe EXCEPT ![i] =
            StatResolved([@ EXCEPT !.statSeen = Some(Stated(stat)),
                                   !.decodeSeen = IF stat.isFile THEN Some(outcome) ELSE Null],
                         stat, outcome)]

StatRejects(i, error) ==
    /\ probe[i].pc = "stat"
    /\ probe' = [probe EXCEPT ![i] =
            StatRejected([@ EXCEPT !.statSeen = Some(Rejected(error))], error)]

\* ---------------------------------------------------------------- the run
\* classifyImageReference and collectImageTargets: a remote target
RemoteTarget(url, sources) ==
    [id |-> "remote::" \o url, type |-> "remote", request |-> url,
     display |-> url, sources |-> sources]

\* addLocalImageTarget: a local target
LocalTarget(path, display) ==
    [id |-> "local::" \o path, type |-> "local", request |-> path,
     display |-> display, sources |-> {path}]

TargetCandidates ==
    {RemoteTarget("https://h/a.png", {"/w/x.html", "/w/y.md"}),
     RemoteTarget("https://h/b.png", {"/w/x.html"}),
     LocalTarget("/w/c.png", "c.png")}

\* a Map holds one entry per key
CollectedMaps ==
    {m \in SeqsUpTo(TargetCandidates, MaxTargets) :
        \A j, k \in 1..Len(m) : m[j].id = m[k].id => j = k}

\* targetMap.get(id)
MapGet(map, id) ==
    IF \E k \in 1..Len(map) : map[k].id = id
    THEN Some(map[CHOOSE k \in 1..Len(map) : map[k].id = id])
    ELSE Null

\* the iterator's return value: { ...metadata, id, type, target: item.display }
WorkerRow(item, metadata) ==
    [target |-> item.display, size |-> metadata.size, status |-> metadata.status,
     width |-> metadata.width, height |-> metadata.height,
     id |-> item.id, type |-> item.type]

\* results.map(...): the row with its occurrences
Decorate(map, item) ==
    LET found == MapGet(map, item.id)
        sources == IF found # Null THEN found[1].sources ELSE {}
    IN [target |-> item.target, size |-> item.size, status |-> item.status,
        width |-> item.width, height |-> item.height,
        id |-> item.id, type |-> item.type, occurrences |-> Cardinality(sources)]

\* typeof size === 'number' ? size : -1
SortKey(row) == IF row.size # Null THEN row.size[1] ELSE -1

\* the comparator of rows.sort
Compare(a, b) == SortKey(b) - SortKey(a)

\* Array.prototype.sort is stable: a row goes behind every row that does not
\* compare greater than it
InsertRow(sorted, row) ==
    LET stay == {k \in 1..Len(sorted) : Compare(sorted[k], row) <= 0}
        at == IF stay = {} THEN 0 ELSE CHOOSE k \in stay : \A j \in stay : j <= k
    IN SubSeq(sorted, 1, at) \o <<row>> \o SubSeq(sorted, at + 1, Len(sorted))

RECURSIVE SortRows(_)
SortRows(rs) ==
    IF Len(rs) = 0 THEN <<>>
    ELSE InsertRow(SortRows(SubSeq(rs, 1, Len(rs) - 1)), rs[Len(rs)])

PoolUnstarted ==
    /\ items = <<>>
    /\ concurrency = 0
    /\ poolPc = "loop"
    /\ idx = 0
    /\ promise = <<>>
    /\ value = <<>>
    /\ results = <<>>
    /\ eState = <<>>
    /\ executing = <<>>
    /\ racing = {}
    /\ race = "none"
    /\ output = <<>>
    /\ settled = <<>>

RunUnstarted ==
    /\ targetMap = <<>>
    /\ options = [concurrency |-> 0]
    /\ runPc = "start"
    /\ rows = <<>>
    /\ files = <<>>
    /\ scanned = 0

\* run, from the collected targetMap to the call of promisePool; fetchFound
\* tells whether ensureFetch finds a fetch implementation
RunStart(fetchFound) ==
    /\ runPc = "start"
    /\ LET targets == targetMap
           hasRemoteTargets == \E k \in 1..Len(targets) : targets[k].type = "remote"
       IN IF Len(targetMap) = 0
          THEN /\ runPc' = "empty"
               /\ UNCHANGED <<poolVars, probe>>
          ELSE IF hasRemoteTargets /\ ~fetchFound
          THEN /\ runPc' = "failed"
               /\ UNCHANGED <<poolVars, probe>>
          ELSE /\ runPc' = "probing"
               /\ items' = targets
               /\ concurrency' = options.concurrency
               /\ promise' = [i \in 1..Len(targets) |-> "none"]
               /\ value' = [i \in 1..Len(targets) |-> Null]
               /\ eState' = [i \in 1..Len(targets) |-> "none"]
               /\ probe' = [i \in 1..Len(targets) |->
                               NewProbe(targets[i].type, targets[i].request)]
               /\ UNCHANGED <<poolPc, idx, results, executing, racing, race,
                              output, settled>>
    /\ UNCHANGED <<targetMap, options, rows, files, scanned>>

\* the microtask calls the iterator, which runs the prober up to its first await
RunWorkerCall(i) ==
    /\ IteratorCall(i)
    /\ IF items[i].type = "remote" THEN RemoteBegin(i) ELSE LocalBegin(i)
    /\ UNCHANGED runVars

\* the prober has returned its record (or thrown): the iterator settles
RunWorkerSettle(i) ==
    /\ probe[i].pc \in {"done", "threw"}
    /\ IF probe[i].pc = "done"
       THEN IteratorReturn(i, WorkerRow(items[i], probe[i].result))
       ELSE IteratorThrow(i)
    /\ UNCHANGED <<settled, probe, runVars>>

\* await Promise.race(executing) settles
RunAwaitSettle ==
    /\ runPc = "probing"
    /\ IF race = "rejected" THEN PoolRaceThrow ELSE PoolResume
    /\ UNCHANGED <<probe, runVars>>

\* Promise.all(results) settles
RunAllSettle ==
    /\ runPc = "probing"
    /\ IF \E k \in 1..Len(results) : promise[results[k]] = "rejected"
       THEN PoolAllReject ELSE PoolAllFulfil
    /\ UNCHANGED <<probe, runVars>>

\* const rows = results.map(...): a new array of new objects
MapRows(map, rs) == [k \in 1..Len(rs) |-> Decorate(map, rs[k])]

ResultsSortedInPlace(rs, sorted) == SortRows(rs)
\* rows.sort(...) sorts the new array in place; `results` is another array
ResultsAfterSort(rs, sorted) == rs

\* await promisePool(...) settles: decorate, sort and render, or catch
RunAggregate ==
    /\ runPc = "probing"
    /\ poolPc \in {"returned", "rejected"}
    /\ IF poolPc = "returned"
       THEN /\ rows' = SortRows(MapRows(targetMap, output))
            /\ output' = ResultsAfterSort(output, rows')
            /\ runPc' = "rendered"
       ELSE /\ runPc' = "failed"
            /\ UNCHANGED <<rows, output>>
    /\ UNCHANGED <<items, concurrency, poolPc, idx, promise, value, results,
                   eState, executing, racing, race, settled>>
    /\ UNCHANGED <<probe, targetMap, options, files, scanned>>

\* ------------------------------------------- specification of the pool alone
\* promisePool over opaque items, with an iterator that may resolve or reject
Init == PoolInit /\ probe = <<>> /\ RunUnstarted

Next ==
    \/ PoolLoopBody /\ UNCHANGED <<probe, runVars>>
    \/ PoolLoopExit /\ UNCHANGED <<probe, runVars>>
    \/ PoolResume /\ UNCHANGED <<probe, runVars>>
    \/ PoolRaceThrow /\ UNCHANGED <<probe, runVars>>
    \/ PoolAllFulfil /\ UNCHANGED <<probe, runVars>>
    \/ PoolAllReject /\ UNCHANGED <<probe, runVars>>
    \/ \E i \in 1..Len(items) : IteratorCall(i) /\ UNCHANGED <<probe, runVars>>
    \/ \E i \in 1..Len(items), out \in IteratorOutputs :
          /\ IteratorReturn(i, IteratorResult(items[i], out))
          /\ settled' = Append(settled, i)
          /\ UNCHANGED <<probe, runVars>>
    \/ \E i \in 1..Len(items) :
          /\ IteratorThrow(i)
          /\ settled' = Append(settled, i)
          /\ UNCHANGED <<probe, runVars>>
    \/ \E i \in 1..Len(items) : ExecutingSettle(i) /\ UNCHANGED <<probe, runVars>>

Spec == Init /\ [][Next]_vars

\* ------------------------------- promisePool with workers that all succeed
\* every worker settles successfully; the job queue runs every reaction that is
\* ready and every worker that was called returns, hence the weak fairness
NextLive ==
    \/ PoolLoopBody /\ UNCHANGED <<probe, runVars>>
    \/ PoolLoopExit /\ UNCHANGED <<probe, runVars>>
    \/ PoolResume /\ UNCHANGED <<probe, runVars>>
    \/ PoolAllFulfil /\ UNCHANGED <<probe, runVars>>
    \/ \E i \in 1..Len(items) : IteratorCall(i) /\ UNCHANGED <<probe, runVars>>
    \/ \E i \in 1..Len(items), out \in IteratorOutputs :
          /\ IteratorReturn(i, IteratorResult(items[i], out))
          /\ UNCHANGED <<settled, probe, runVars>>
    \/ \E i \in 1..Len(items) : ExecutingSettle(i) /\ UNCHANGED <<probe, runVars>>

SpecLive == Init /\ [][NextLive]_vars /\ WF_vars(NextLive)

\* ------------------------------------------ specification of the probes alone
\* one call of getRemoteImageMetadata or of getLocalImageMetadata against every
\* response, failure, timeout and decode outcome
InitProbe ==
    /\ PoolUnstarted
    /\ RunUnstarted
    /\ probe \in [{1} -> {NewProbe("remote", "https://h/a.png"), NewProbe("local", "/w/c.png")}]

NextProbe ==
    \/ \E i \in ProbeIds : RemoteBegin(i) /\ UNCHANGED <<poolVars, runVars>>
    \/ \E i \in ProbeIds : LocalBegin(i) /\ UNCHANGED <<poolVars, runVars>>
    \/ \E i \in ProbeIds : TimerFires(i) /\ UNCHANGED <<poolVars, runVars>>
    \/ \E i \in ProbeIds, res \in HeadResponses :
          HeadResponds(i, res) /\ UNCHANGED <<poolVars, runVars>>
    \/ \E i \in ProbeIds, error \in TransportErrors :
          HeadFails(i, error) /\ UNCHANGED <<poolVars, runVars>>
    \/ \E i \in ProbeIds : HeadAborts(i) /\ UNCHANGED <<poolVars, runVars>>
    \/ \E i \in ProbeIds, res \in GetResponses :
          GetResponds(i, res) /\ UNCHANGED <<poolVars, runVars>>
    \/ \E i \in ProbeIds, error \in TransportErrors :
          GetFails(i, error) /\ UNCHANGED <<poolVars, runVars>>
    \/ \E i \in ProbeIds : GetAborts(i) /\ UNCHANGED <<poolVars, runVars>>
    \/ \E i \in ProbeIds, outcome \in DecodeOutcomes :
          BodyArrives(i, outcome) /\ UNCHANGED <<poolVars, runVars>>
    \/ \E i \in ProbeIds, error \in TransportErrors :
          BodyFails(i, error) /\ UNCHANGED <<poolVars, runVars>>
    \/ \E i \in ProbeIds, stat \in StatResults, outcome \in DecodeOutcomes :
          StatResolves(i, stat, outcome) /\ UNCHANGED <<poolVars, runVars>>
    \/ \E i \in ProbeIds, error \in StatErrors :
          StatRejects(i, error) /\ UNCHANGED <<poolVars, runVars>>

SpecProbe == InitProbe /\ [][NextProbe]_vars

\* the same probe under the assumptions of a deadline: the prober is called,
\* an armed timer eventually fires and an aborted call eventually rejects
\* (nothing is assumed of the server: no response and no body need ever come)
TimerEventuallyFires ==
    \E i \in ProbeIds : TimerFires(i) /\ UNCHANGED <<poolVars, runVars>>
AbortedHeadSettles ==
    \E i \in ProbeIds : HeadAborts(i) /\ UNCHANGED <<poolVars, runVars>>
AbortedGetSettles ==
    \E i \in ProbeIds : GetAborts(i) /\ UNCHANGED <<poolVars, runVars>>
ProberIsCalled ==
    \E i \in ProbeIds : (RemoteBegin(i) \/ LocalBegin(i)) /\ UNCHANGED <<poolVars, runVars>>

SpecProbeFair ==
    /\ InitProbe
    /\ [][NextProbe]_vars
    /\ WF_vars(ProberIsCalled)
    /\ WF_vars(TimerEventuallyFires)
    /\ WF_vars(AbortedHeadSettles)
    /\ WF_vars(AbortedGetSettles)

\* ------------------------------------------------ specification of the run
\* run over a collected targetMap: promisePool with the probers as its
\* iterator, then the aggregation. Each probe meets a success, a non-success
\* status, a timeout, a transport failure and a decode failure; SpecProbe
\* covers the probers against the full set of outcomes.
RunHeadResponses ==
    {Response(200, Some(CL_2048), Null), Response(200, Some(CL_Negative), Null)}
RunGetResponses == {Response(206, Null, Some(CR_Total4096)), Response(404, Null, Null)}
RunDecodeOutcomes ==
    {Dimensions(Some(10), Some(20)),
     [kind |-> "throw", width |-> Null, height |-> Null, message |-> "unsupported file type"]}
RunStatResults == {[isFile |-> TRUE, size |-> 2048], [isFile |-> FALSE, size |-> 4096]}
RunStatErrors == {[name |-> "Error", message |-> "no such file or directory", code |-> "ENOENT"]}

InitRun ==
    /\ PoolUnstarted
    /\ probe = <<>>
    /\ targetMap \in CollectedMaps
    /\ options \in [concurrency : 1..MaxLimit]
    /\ runPc = "start"
    /\ rows = <<>>
    /\ files = <<>>
    /\ scanned = 0

NextRun ==
    \/ \E fetchFound \in BOOLEAN : RunStart(fetchFound)
    \/ runPc = "probing" /\ PoolLoopBody /\ UNCHANGED <<probe, runVars>>
    \/ runPc = "probing" /\ PoolLoopExit /\ UNCHANGED <<probe, runVars>>
    \/ RunAwaitSettle
    \/ RunAllSettle
    \/ RunAggregate
    \/ \E i \in 1..Len(items) : RunWorkerCall(i)
    \/ \E i \in 1..Len(items) : RunWorkerSettle(i)
    \/ \E i \in 1..Len(items) : ExecutingSettle(i) /\ UNCHANGED <<probe, runVars>>
    \/ PoolYielded /\ \E i \in ProbeIds : TimerFires(i) /\ UNCHANGED <<poolVars, runVars>>
    \/ PoolYielded /\ \E i \in ProbeIds, res \in RunHeadResponses :
          HeadResponds(i, res) /\ UNCHANGED <<poolVars, runVars>>
    \/ PoolYielded /\ \E i \in ProbeIds : HeadAborts(i) /\ UNCHANGED <<poolVars, runVars>>
    \/ PoolYielded /\ \E i \in ProbeIds, res \in RunGetResponses :
          GetResponds(i, res) /\ UNCHANGED <<poolVars, runVars>>
    \/ PoolYielded /\ \E i \in ProbeIds : GetAborts(i) /\ UNCHANGED <<poolVars, runVars>>
    \/ PoolYielded /\ \E i \in ProbeIds, outcome \in RunDecodeOutcomes :
          BodyArrives(i, outcome) /\ UNCHANGED <<poolVars, runVars>>
    \/ PoolYielded /\ \E i \in ProbeIds, error \in TransportErrors :
          BodyFails(i, error) /\ UNCHANGED <<poolVars, runVars>>
    \/ PoolYielded /\ \E i \in ProbeIds, stat \in RunStatResults, outcome \in RunDecodeOutcomes :
          StatResolves(i, stat, outcome) /\ UNCHANGED <<poolVars, runVars>>
    \/ PoolYielded /\ \E i \in ProbeIds, error \in RunStatErrors :
          StatRejects(i, error) /\ UNCHANGED <<poolVars, runVars>>

SpecRun == InitRun /\ [][NextRun]_vars

\* ---------------------------------------------------------- the collector
\* References are sequences of one-character strings, file paths sequences of
\* segments, so that classifyImageReference and addLocalImageTarget work on
\* the text as the code does.
RECURSIVE Str(_)
\* the string a sequence of one-character strings spells
Str(t) == IF Len(t) = 0 THEN "" ELSE t[1] \o Str(Tail(t))

\* the i flag of the patterns, for the letters they name
Lower(c) ==
    CASE c = "H" -> "h" [] c = "T" -> "t" [] c = "P" -> "p" [] c = "S" -> "s"
      [] c = "D" -> "d" [] c = "A" -> "a" [] OTHER -> c

\* String.prototype.startsWith
StartsWith(t, prefix) ==
    Len(t) >= Len(prefix) /\ SubSeq(t, 1, Len(prefix)) = prefix

\* /^prefix/i.test(t)
StartsWithIgnoreCase(t, prefix) ==
    /\ Len(t) >= Len(prefix)
    /\ \A k \in 1..Len(prefix) : Lower(t[k]) = prefix[k]

HttpPrefix == <<"h", "t", "t", "p", ":", "/", "/">>
HttpsPrefix == <<"h", "t", "t", "p", "s", ":", "/", "/">>
DataPrefix == <<"d", "a", "t", "a", ":">>
HttpsScheme == <<"h", "t", "t", "p", "s", ":">>

classifyWithoutNormalizing(rawValue) ==
    LET trimmedValue == TrimRight(TrimLeft(rawValue))
        isHttpUrl == \/ StartsWithIgnoreCase(trimmedValue, HttpPrefix)
                     \/ StartsWithIgnoreCase(trimmedValue, HttpsPrefix)
        isProtocolRelative == StartsWith(trimmedValue, <<"/", "/">>)
    IN IF Len(trimmedValue) = 0 \/ StartsWithIgnoreCase(trimmedValue, DataPrefix) THEN Null
       ELSE IF isHttpUrl \/ isProtocolRelative
            THEN Some([id |-> "remote::" \o Str(trimmedValue), type |-> "remote",
                       request |-> Str(trimmedValue), display |-> Str(trimmedValue)])
            ELSE Null
\* classifyImageReference: null, or the identity of a remote reference
classifyImageReference(rawValue) ==
    LET trimmedValue == TrimRight(TrimLeft(rawValue))
        isHttpUrl == \/ StartsWithIgnoreCase(trimmedValue, HttpPrefix)
                     \/ StartsWithIgnoreCase(trimmedValue, HttpsPrefix)
        isProtocolRelative == StartsWith(trimmedValue, <<"/", "/">>)
        normalized == IF isProtocolRelative THEN HttpsScheme \o trimmedValue
                      ELSE trimmedValue
    IN IF Len(trimmedValue) = 0 \/ StartsWithIgnoreCase(trimmedValue, DataPrefix) THEN Null
       ELSE IF isHttpUrl \/ isProtocolRelative
            THEN Some([id |-> "remote::" \o Str(normalized), type |-> "remote",
                       request |-> Str(normalized), display |-> Str(normalized)])
            ELSE Null

RECURSIVE PathNormalize(_)
\* path.normalize on an absolute path: "." and empty segments go, ".." takes
\* the segment before it
PathNormalize(segs) ==
    IF Len(segs) = 0 THEN <<>>
    ELSE LET before == PathNormalize(SubSeq(segs, 1, Len(segs) - 1))
             last == segs[Len(segs)]
         IN IF last \in {".", ""} THEN before
            ELSE IF last = ".."
                 THEN (IF Len(before) = 0 THEN before
                       ELSE SubSeq(before, 1, Len(before) - 1))
            ELSE Append(before, last)

RECURSIVE JoinPath(_)
JoinPath(segs) ==
    IF Len(segs) = 0 THEN ""
    ELSE IF Len(segs) = 1 THEN segs[1]
    ELSE segs[1] \o "/" \o JoinPath(Tail(segs))

\* the text of an absolute path
PathText(segs) == "/" \o JoinPath(segs)

\* process.cwd()
Cwd == <<"w">>

\* path.relative(from, to) of two normalized absolute paths
PathRelative(from, to) ==
    LET same == {n \in 0..Len(from) :
                    n <= Len(to) /\ SubSeq(from, 1, n) = SubSeq(to, 1, n)}
        common == CHOOSE n \in same : \A m \in same : m <= n
    IN JoinPath([k \in 1..(Len(from) - common) |-> ".."]
                \o SubSeq(to, common + 1, Len(to)))

\* targetMap.has(id)
MapHas(map, id) == \E k \in 1..Len(map) : map[k].id = id

\* targetMap.set(id, target) for an id the map does not hold
MapSet(map, target) == Append(map, target)

\* targetMap.get(id).sources.add(source)
SourcesAdd(map, id, source) ==
    [k \in 1..Len(map) |->
        IF map[k].id = id
        THEN [map[k] EXCEPT !.sources = @ \cup {source}]
        ELSE map[k]]

\* addLocalImageTarget
addLocalImageTarget(map, absolutePath) ==
    LET normalizedPath == PathNormalize(absolutePath)
        relative == PathRelative(Cwd, normalizedPath)
        display == IF relative = "" THEN PathText(normalizedPath) ELSE relative
        id == "local::" \o PathText(normalizedPath)
    IN IF ~MapHas(map, id)
       THEN MapSet(map, LocalTarget(PathText(normalizedPath), display))
       ELSE SourcesAdd(map, id, PathText(normalizedPath))

\* the body of for (const reference of references)
AddReference(map, reference, file) ==
    LET classified == classifyImageReference(reference)
    IN IF classified = Null THEN map
       ELSE LET c == classified[1]
                held == IF ~MapHas(map, c.id)
                        THEN MapSet(map, [id |-> c.id, type |-> c.type,
                                          request |-> c.request, display |-> c.display,
                                          sources |-> {}])
                        ELSE map
            IN SourcesAdd(held, c.id, file)

RECURSIVE AddReferences(_, _, _)
\* for (const reference of references) { ... }
AddReferences(map, references, file) ==
    IF Len(references) = 0 THEN map
    ELSE AddReferences(AddReference(map, references[1], file), Tail(references), file)

\* what walkFiles and extractImageReferences hand to the collector: a file is
\* an image (IMAGE_EXT_PATTERN matches its path) or a text with the references
\* extracted from it; content Null is a file that is empty or cannot be read
Ref_ProtocolRelativeA == <<"/", "/", "h", "/", "a", ".", "p", "n", "g">>
Ref_HttpsA == <<"h", "t", "t", "p", "s", ":", "/", "/", "h", "/", "a", ".", "p", "n", "g">>
Ref_HttpB == <<"h", "t", "t", "p", ":", "/", "/", "h", "/", "b", ".", "p", "n", "g">>
Ref_Data == <<"d", "a", "t", "a", ":", "x", ".", "p", "n", "g">>
Ref_Relative == <<"i", "m", "g", "/", "d", ".", "p", "n", "g">>

FileCandidates ==
    {[path |-> <<"w", "x.html">>, image |-> FALSE,
      content |-> Some(<<Ref_ProtocolRelativeA, Ref_HttpB, Ref_Relative>>)],
     [path |-> <<"w", "y.md">>, image |-> FALSE,
      content |-> Some(<<Ref_HttpsA, Ref_Data, Ref_ProtocolRelativeA>>)],
     [path |-> <<"w", "z.css">>, image |-> FALSE, content |-> Null],
     [path |-> <<"w", "c.png">>, image |-> TRUE, content |-> Null]}

\* one iteration of for (const file of files)
CollectFile ==
    /\ runPc = "collect"
    /\ scanned < Len(files)
    /\ LET file == files[scanned + 1]
       IN targetMap' =
            IF file.image THEN addLocalImageTarget(targetMap, file.path)
            ELSE IF file.content = Null THEN targetMap
            ELSE AddReferences(targetMap, file.content[1], PathText(file.path))
    /\ scanned' = scanned + 1
    /\ UNCHANGED <<poolVars, probe, options, runPc, rows, files>>

\* return targetMap: run goes on with the collected targets
CollectReturn ==
    /\ runPc = "collect"
    /\ scanned = Len(files)
    /\ runPc' = "start"
    /\ UNCHANGED <<poolVars, probe, targetMap, options, rows, files, scanned>>

\* --------------------------------------- specification of the collector
\* collectImageTargets over every list of up to MaxFiles files
InitCollect ==
    /\ PoolUnstarted
    /\ probe = <<>>
    /\ targetMap = <<>>
    /\ options = [concurrency |-> 0]
    /\ runPc = "collect"
    /\ rows = <<>>
    /\ files \in SeqsUpTo(FileCandidates, MaxFiles)
    /\ scanned = 0

NextCollect ==
    \/ CollectFile
    \/ CollectReturn

SpecCollect == InitCollect /\ [][NextCollect]_vars

\* ------------------------------------------------------------------ claims
InFlight == {i \in 1..Len(items) : promise[i] = "running"}

\* C1: for limit >= 1, when promisePool returns, its output has the length of
\* the input and output[i] is the value the worker for items[i] resolved with,
\* whatever order the workers completed in.
C1_OutputAligned ==
    (concurrency >= 1 /\ poolPc = "returned") =>
        /\ Len(output) = Len(items)
        /\ \A i \in 1..Len(items) :
            /\ output[i] = value[i][1]
            /\ output[i].item = items[i]

C1_Witness ==
    /\ concurrency >= 1
    /\ poolPc = "returned"
    /\ Len(items) = MaxItems
    /\ items[1] # items[2]
    /\ settled[1] # 1
    /\ output[1].out # output[2].out

\* C2: for limit >= 1, the number of workers started and not yet settled is
\* at most limit in every reachable state.
C2_AtMostLimitInFlight ==
    concurrency >= 1 => Cardinality(InFlight) <= concurrency

C2_Witness ==
    /\ concurrency = MaxLimit
    /\ Cardinality(InFlight) = concurrency
    /\ poolPc = "await"
    /\ idx < Len(items)

\* C3: a worker that throws for one item does not prevent the pool from
\* producing results for the other items: once the pool has settled after a
\* worker threw, it has delivered an output in which every other item's slot
\* holds that item's worker result.
C3_WorkerFailureIsSlotLocal ==
    (/\ concurrency >= 1
     /\ Len(items) >= 2
     /\ poolPc \in {"returned", "rejected"}
     /\ \E i \in 1..Len(items) : promise[i] = "rejected") =>
        /\ poolPc = "returned"
        /\ Len(output) = Len(items)
        /\ \A i \in 1..Len(items) :
            promise[i] # "rejected" => (promise[i] = "fulfilled" /\ output[i] = value[i][1])

\* ---- the run
\* C5: a run over N collected targets produces exactly N report rows, one per
\* target id, whatever the outcomes of the probes: once promisePool has been
\* called the run never ends in its catch block, and the rows it renders
\* carry every id of the targetMap exactly once.
C5_OneRowPerTarget ==
    /\ runPc = "rendered" =>
        /\ Len(rows) = Len(targetMap)
        /\ \A k \in 1..Len(targetMap) :
            Cardinality({j \in 1..Len(rows) : rows[j].id = targetMap[k].id}) = 1
    /\ runPc = "failed" => (items = <<>> /\ probe = <<>>)
    /\ poolPc # "rejected"

C5_Witness ==
    /\ runPc = "rendered"
    /\ Len(rows) = MaxTargets
    /\ \A j \in 1..Len(rows) :
        /\ rows[j].size = Null
        /\ rows[j].width = Null
        /\ rows[j].status \in {"HEAD timeout; GET timeout", "File not found"}
    /\ \E j \in 1..Len(rows) : rows[j].type = "remote"
\* ---- the probers
HeadOk(p) == p.headSeen # Null /\ p.headSeen[1].ev = "response" /\ ResOk(p.headSeen[1].res)
GetOk(p) == p.getSeen # Null /\ p.getSeen[1].ev = "response" /\ ResOk(p.getSeen[1].res)
GetNotOk(p) == p.getSeen # Null /\ p.getSeen[1].ev = "response" /\ ~ResOk(p.getSeen[1].res)
HeadTimedOut(p) == p.headSeen # Null /\ p.headSeen[1].error.name = "AbortError"
\* the size the HEAD phase captured
HeadLength(p) ==
    IF HeadOk(p) THEN parseNumber(p.headSeen[1].res.headers.contentLength) ELSE Null
Decoded(p) ==
    /\ p.decodeSeen # Null
    /\ p.decodeSeen[1].kind = "dimensions"
    /\ p.decodeSeen[1].width # Null
    /\ p.decodeSeen[1].height # Null

\* C4: whatever the HEAD call, the GET call, the body read, the stat lookup and
\* the header decode do (response, non-success status, timeout, transport
\* failure, decode failure), the prober never throws: every call that settled
\* with a failure left the probe with a finished record or in its next phase.
C4_ProbesNeverThrow ==
    \A i \in ProbeIds :
        LET p == probe[i]
        IN /\ p.pc # "threw"
           /\ (p.headSeen # Null /\ p.headSeen[1].ev = "error") => p.pc \in {"get", "body", "done"}
           /\ (p.getSeen # Null /\ p.getSeen[1].ev = "error") => p.pc = "done"
           /\ (p.bodySeen # Null /\ p.bodySeen[1].ev = "error") => p.pc = "done"
           /\ (p.statSeen # Null /\ p.statSeen[1].ev = "error") => p.pc = "done"
           /\ (p.decodeSeen # Null /\ p.decodeSeen[1].kind = "throw") => p.pc = "done"

C4_Witness ==
    \E i \in ProbeIds :
        /\ probe[i].pc = "done"
        /\ HeadTimedOut(probe[i])
        /\ probe[i].bodySeen # Null
        /\ probe[i].bodySeen[1].ev = "error"
        /\ probe[i].result.status = "HEAD timeout; OK(Range); GET failed: fetch failed"

\* C6: when HEAD succeeds with a content-length that parses to L and the ranged
\* GET succeeds with a decodable header of w x h, the record has size L whatever
\* content-range or content-length the GET carries, width w, height h, and
\* status "OK(HEAD)" followed by "OK(Range)" for a 206 and "OK(GET)" otherwise.
C6_HeadLengthWins ==
    \A i \in ProbeIds :
        LET p == probe[i]
        IN (p.pc = "done" /\ HeadOk(p) /\ HeadLength(p) # Null /\ GetOk(p) /\ Decoded(p)) =>
            /\ p.result.size = HeadLength(p)
            /\ (p.headSeen[1].res.headers.contentLength = Some(CL_1048576)
                    => p.result.size = Some(1048576))
            /\ p.result.width = p.decodeSeen[1].width
            /\ p.result.height = p.decodeSeen[1].height
            /\ p.result.status =
                   IF p.getSeen[1].res.status = 206 THEN "OK(HEAD); OK(Range)"
                   ELSE "OK(HEAD); OK(GET)"

C6_Witness ==
    \E i \in ProbeIds :
        /\ probe[i].pc = "done"
        /\ probe[i].headSeen = Some(Responded(Response(200, Some(CL_1048576), Null)))
        /\ probe[i].getSeen = Some(Responded(Response(206, Some(CL_2048), Some(CR_Total4096))))
        /\ probe[i].result.size = Some(1048576)
        /\ probe[i].result.width = Some(10)
        /\ probe[i].result.height = Some(20)
        /\ probe[i].result.status = "OK(HEAD); OK(Range)"

\* C7: when the HEAD phase did not set size and the GET succeeds, size is the
\* total of the GET's content-range if that parses, otherwise the GET's
\* content-length only if the GET status is exactly 200, otherwise unknown;
\* HEAD timeout then GET 200 with content-length 2048 gives size 2048 and a
\* status of the HEAD timeout token followed by "OK(GET)".
C7_SizeFromGetResponse ==
    \A i \in ProbeIds :
        LET p == probe[i]
        IN (p.headSeen # Null /\ HeadLength(p) = Null /\ GetOk(p)) =>
            LET res == p.getSeen[1].res
                total == parseTotalFromContentRange(res.headers.contentRange)
                length == parseNumber(res.headers.contentLength)
            IN /\ p.result.size =
                      IF total # Null THEN total
                      ELSE IF res.status = 200 /\ length # Null THEN length
                      ELSE Null
               /\ (HeadTimedOut(p) /\ res = Response(200, Some(CL_2048), Null)) =>
                      /\ p.result.size = Some(2048)
                      /\ SubSeq(p.statusMessages, 1, 2) = <<"HEAD timeout", "OK(GET)">>

C7_Witness ==
    \E i \in ProbeIds :
        /\ probe[i].pc = "done"
        /\ HeadTimedOut(probe[i])
        /\ probe[i].getSeen = Some(Responded(Response(200, Some(CL_2048), Null)))
        /\ probe[i].result.size = Some(2048)
        /\ probe[i].result.status = "HEAD timeout; OK(GET)"

\* C8: when the GET response has a non-success status the probe returns at
\* once: width and height unknown, size what the HEAD phase captured, status
\* ending in "GET <code>", and the body is never read or decoded; HEAD 404 and
\* GET 404 give size, width and height null and status "HEAD 404; GET 404".
C8_GetNonSuccessReturns ==
    \A i \in ProbeIds :
        LET p == probe[i]
        IN GetNotOk(p) =>
            /\ p.pc = "done"
            /\ p.result.width = Null
            /\ p.result.height = Null
            /\ p.result.size = HeadLength(p)
            /\ p.statusMessages[Len(p.statusMessages)] = "GET " \o ToString(p.getSeen[1].res.status)
            /\ p.result.status = Join(p.statusMessages, "; ")
            /\ p.bodyReads = 0
            /\ p.decodes = 0
            /\ (p.headSeen[1].ev = "response" /\ p.headSeen[1].res.status = 404
                  /\ p.getSeen[1].res.status = 404) =>
                    /\ p.result.size = Null
                    /\ p.result.status = "HEAD 404; GET 404"

C8_Witness ==
    \E i \in ProbeIds :
        /\ probe[i].pc = "done"
        /\ probe[i].headSeen = Some(Responded(Response(404, Null, Null)))
        /\ GetNotOk(probe[i])
        /\ probe[i].result.status = "HEAD 404; GET 404"

\* C9: whatever the outcome of the HEAD call (success, non-success status,
\* timeout, transport failure), the ranged GET is issued, and only once the
\* HEAD call has settled; a probe makes at most two network calls, HEAD then
\* GET, and never has two in flight.
C9_GetFollowsEveryHead ==
    \A i \in ProbeIds :
        LET p == probe[i]
        IN /\ p.calls \in {<<>>, <<"HEAD">>, <<"HEAD", "GET">>}
           /\ Cardinality(p.net) <= 1
           /\ p.headSeen # Null => p.calls = <<"HEAD", "GET">>
           /\ Len(p.calls) = 2 => (p.headSeen # Null /\ "HEAD" \notin p.net)
           /\ (p.kind = "remote" /\ p.pc = "done") => p.calls = <<"HEAD", "GET">>

C9_Witness ==
    \E i \in ProbeIds :
        /\ probe[i].headSeen # Null
        /\ probe[i].headSeen[1].ev = "error"
        /\ probe[i].headSeen[1].error.name = "TypeError"
        /\ probe[i].net = {"GET"}

\* C10: in every record of either prober width and height are both known or
\* both unknown.
C10_DimensionsTogether ==
    \A i \in ProbeIds :
        (probe[i].result.width = Null) <=> (probe[i].result.height = Null)

C10_Witness ==
    \E i \in ProbeIds :
        /\ probe[i].pc = "done"
        /\ probe[i].decodeSeen = Some(Dimensions(Some(10), Null))
        /\ probe[i].result.width = Null
        /\ probe[i].result.height = Null
        /\ probe[i].result.size # Null

\* C11: the status of every record returned by either prober is never empty:
\* on every exit path at least one diagnostic token, itself not empty, was
\* recorded before the status was finalized from the tokens.
C11_StatusNeverEmpty ==
    \A i \in ProbeIds :
        LET p == probe[i]
        IN p.pc = "done" =>
              /\ Len(p.statusMessages) >= 1
              /\ \A k \in 1..Len(p.statusMessages) : p.statusMessages[k] # ""
              /\ p.result.status = Join(p.statusMessages, "; ")
              /\ p.result.status \notin {"", "Unknown"}

C11_Witness ==
    \E i \in ProbeIds :
        /\ probe[i].kind = "local"
        /\ probe[i].pc = "done"
        /\ probe[i].statusMessages = <<"OK(file)">>
        /\ probe[i].result.status = "OK(file)"

\* the stat lookup of a local probe failed / found something not a regular file
StatFailed(p) == p.statSeen # Null /\ p.statSeen[1].ev = "error"
NotRegular(p) == p.statSeen # Null /\ p.statSeen[1].ev = "stat" /\ ~p.statSeen[1].stat.isFile
Regular(p) == p.statSeen # Null /\ p.statSeen[1].ev = "stat" /\ p.statSeen[1].stat.isFile

\* C12: a local probe whose stat lookup fails or whose path is not a regular
\* file returns early with size, width and height unknown and never attempts
\* the header decode; a missing path (ENOENT) is recorded as "File not found",
\* a non-file as "Not a file", any other failure as "File access failed: ...",
\* and the three tokens are distinct.
C12_LocalEarlyReturn ==
    \A i \in ProbeIds :
        LET p == probe[i]
        IN (p.kind = "local" /\ p.pc = "done") =>
              /\ (StatFailed(p) \/ NotRegular(p)) =>
                    /\ p.result.size = Null
                    /\ p.result.width = Null
                    /\ p.result.height = Null
                    /\ p.decodes = 0
                    /\ p.decodeSeen = Null
                    /\ Len(p.statusMessages) = 1
              /\ NotRegular(p) => p.result.status = "Not a file"
              /\ (StatFailed(p) /\ p.statSeen[1].error.code = "ENOENT") =>
                    p.result.status = "File not found"
              /\ (StatFailed(p) /\ p.statSeen[1].error.code # "ENOENT") =>
                    /\ p.result.status = "File access failed: " \o p.statSeen[1].error.message
                    /\ p.result.status \notin {"File not found", "Not a file"}
              /\ p.result.status = "File not found" =>
                    (StatFailed(p) /\ p.statSeen[1].error.code = "ENOENT")

C12_Witness ==
    \E i \in ProbeIds :
        /\ probe[i].kind = "local"
        /\ probe[i].pc = "done"
        /\ StatFailed(probe[i])
        /\ probe[i].statSeen[1].error.code = "ENOENT"
        /\ probe[i].result.status = "File not found"
        /\ probe[i].decodes = 0

\* C13: for a regular file the record's size equals the file's byte length
\* whether or not the header decodes; the status is exactly "OK(file)" if and
\* only if the decode yielded finite width and height; a failed decode leaves
\* width and height unknown while the size is still reported.
C13_LocalRegularFile ==
    \A i \in ProbeIds :
        LET p == probe[i]
        IN (p.kind = "local" /\ p.pc = "done" /\ Regular(p)) =>
              /\ p.result.size = Some(p.statSeen[1].stat.size)
              /\ p.decodes = 1
              /\ (p.result.status = "OK(file)") <=> Decoded(p)
              /\ Decoded(p) => /\ p.result.width = p.decodeSeen[1].width
                               /\ p.result.height = p.decodeSeen[1].height
              /\ ~Decoded(p) => /\ p.result.width = Null
                                /\ p.result.height = Null
                                /\ p.result.status # "OK(file)"

C13_Witness ==
    \E i \in ProbeIds :
        /\ probe[i].kind = "local"
        /\ probe[i].pc = "done"
        /\ Regular(probe[i])
        /\ probe[i].decodeSeen[1].kind = "throw"
        /\ probe[i].result.size = Some(512)
        /\ probe[i].result.width = Null
        /\ probe[i].result.status = "Failed to parse resolution: unsupported file type"

\* the position of a row in discovery order: its index in the pool's output
Discovery(row) == CHOOSE k \in 1..Len(output) : output[k].id = row.id

\* C14: the report rows are a stable descending sort on size in which an
\* unknown size is smaller than every known size: every row with a known size
\* precedes every row with an unknown size, known sizes are non-increasing, and
\* rows with equal size (or both unknown) keep their discovery order.
C14_StableDescendingBySize ==
    runPc = "rendered" =>
        /\ Len(rows) = Len(output)
        /\ \A j, k \in 1..Len(rows) :
              j < k =>
                 /\ rows[k].size # Null => rows[j].size # Null
                 /\ (rows[j].size # Null /\ rows[k].size # Null) =>
                       rows[j].size[1] >= rows[k].size[1]
                 /\ rows[j].size = rows[k].size =>
                       Discovery(rows[j]) < Discovery(rows[k])

\* ---- the pool, continued
Started(i) == promise[i] \in {"running", "fulfilled", "rejected"}
Quiescent == \A i \in 1..Len(items) : promise[i] \in {"none", "fulfilled", "rejected"}

\* C16: a worker failure does not abort sibling tasks: once a worker has
\* thrown and the pool and every worker in flight have settled, every item of
\* the input has been started.
C16_FailureStartsSiblings ==
    (/\ \E i \in 1..Len(items) : promise[i] = "rejected"
     /\ poolPc \in {"returned", "rejected"}
     /\ Quiescent) =>
        \A i \in 1..Len(items) : Started(i)

\* C17: promisePool terminates only when all tasks have settled: when the
\* pool's promise has settled, with a value or with a failure, every item has
\* been started and no started worker is still in flight.
C17_SettlesAfterAllTasks ==
    poolPc \in {"returned", "rejected"} =>
        /\ idx = Len(items)
        /\ \A i \in 1..Len(items) : promise[i] \in {"fulfilled", "rejected"}

\* a step of the pool keeps the workers' start order: a worker is called only
\* once its promise was queued and every earlier item's worker was called, a
\* promise is queued only once, and a settled worker is never started again
C18_StartStep ==
    \A i \in 1..Len(items) :
        /\ (promise'[i] = "running" /\ promise[i] # "running") =>
              /\ promise[i] = "queued"
              /\ \A j \in 1..(i - 1) : Started(j)
        /\ (promise'[i] = "queued" /\ promise[i] # "queued") =>
              /\ promise[i] = "none"
              /\ i = idx + 1
        /\ promise[i] \in {"fulfilled", "rejected"} => promise'[i] = promise[i]

C18_NoneSkipped ==
    poolPc = "returned" =>
        /\ results = [k \in 1..Len(items) |-> k]
        /\ \A i \in 1..Len(items) : promise[i] = "fulfilled"

\* C18: promisePool starts the workers in input order and calls the worker
\* exactly once per item: for i < j the worker of items[j] is never started
\* before the worker of items[i], no item is started twice, and none is
\* skipped when no worker fails.
C18_StartsInOrderOnce == [][C18_StartStep]_vars /\ []C18_NoneSkipped

C18_Witness ==
    /\ Len(items) = 3
    /\ concurrency = 2
    /\ promise[1] = "fulfilled"
    /\ promise[2] = "running"
    /\ promise[3] = "running"

\* C19: with a limit <= 0 the pool imposes no bound: it never tracks a worker
\* and never waits, every item's promise has been created before any worker
\* runs or completes, and the output is aligned with the input.
C19_NoBoundWithoutLimit ==
    concurrency <= 0 =>
        /\ poolPc # "await"
        /\ race = "none"
        /\ executing = <<>>
        /\ (\E i \in 1..Len(items) : Started(i)) => idx = Len(items)
        /\ poolPc = "returned" =>
              /\ Len(output) = Len(items)
              /\ \A i \in 1..Len(items) :
                    output[i] = value[i][1] /\ output[i].item = items[i]

C19_Witness ==
    /\ concurrency <= 0
    /\ Len(items) = MaxItems
    /\ InFlight = 1..MaxItems

\* the pool waits only while `limit` tracked workers are all in flight, and a
\* worker that completes while the pool waits has settled the race
C20_NoIdle ==
    concurrency >= 1 =>
        /\ Len(executing) <= concurrency
        /\ (poolPc = "await" /\ race = "pending") =>
              /\ Len(executing) = concurrency
              /\ \A k \in 1..Len(executing) : eState[executing[k]] = "pending"
        /\ (poolPc = "await" /\ Len(executing) < concurrency) => race = "fulfilled"

\* C20: for a limit >= 1, when every worker settles successfully the pool
\* eventually returns; it blocks before the next item only while `limit`
\* workers are tracked as in flight, and whenever it blocks it resumes (no lost
\* wake-up, no deadlock).
C20_EventuallyReturns ==
    /\ []C20_NoIdle
    /\ (concurrency >= 1) => <>(poolPc = "returned")
    /\ (concurrency >= 1 /\ poolPc = "await") ~> (poolPc = "loop")

C20_Witness ==
    /\ concurrency = 1
    /\ Len(items) = MaxItems
    /\ poolPc = "returned"
    /\ Len(output) = MaxItems

\* ---- the remote probe, continued
\* the ranged-GET phase ended in a rejection of the request or of the body read
GetPhaseFailed(p) ==
    \/ p.getSeen # Null /\ p.getSeen[1].ev = "error"
    \/ p.bodySeen # Null /\ p.bodySeen[1].ev = "error"

\* C21: if the ranged-GET phase ends in a transport failure or timeout, during
\* the request or while reading the body, the returned record's size is exactly
\* the size captured in the HEAD phase (unknown if none) and its dimensions are
\* unknown.
C21_FailedGetKeepsHeadSize ==
    \A i \in ProbeIds :
        LET p == probe[i]
        IN (p.kind = "remote" /\ p.pc = "done" /\ GetPhaseFailed(p)) =>
              /\ p.result.size = HeadLength(p)
              /\ p.result.width = Null
              /\ p.result.height = Null

\* a header text that denotes a non-negative integer
NonNegativeInteger(v) ==
    /\ v # Null
    /\ LET t == TrimRight(TrimLeft(v[1]))
       IN Len(t) > 0 /\ AllIn(t, Digit)

\* C22: whenever the size of a remote record is known it is a non-negative
\* integer, and a content-length that is absent, empty, non-numeric, negative
\* or non-finite is treated as absent: the size is not set from it, and in
\* particular is not set to zero.
C22_SizeNonNegativeOrAbsent ==
    \A i \in ProbeIds :
        LET p == probe[i]
        IN p.kind = "remote" =>
              /\ p.result.size # Null => p.result.size[1] >= 0
              /\ (p.pc = "get" /\ HeadOk(p)
                    /\ ~NonNegativeInteger(HeadersGet(p.headSeen[1].res, "content-length"))) =>
                    p.result.size = Null

\* every network operation a probe waits for has a deadline: the timer of the
\* call it belongs to is armed, or has fired and aborted it
C23_DeadlineArmed ==
    \A i \in ProbeIds :
        /\ probe[i].pc = "head" => probe[i].timer.HEAD \in {"armed", "fired"}
        /\ probe[i].pc \in {"get", "body"} => probe[i].timer.GET \in {"armed", "fired"}

\* C23: every remote probe is bounded by its timeouts: if every armed timer
\* eventually fires and every aborted call settles, a remote probe that was
\* started eventually returns its record, even if the server never completes
\* the HEAD response, the GET response or the GET body; and no network
\* operation of a probe is pending without an armed deadline.
C23_BoundedByTimeouts ==
    /\ (probe[1].kind = "remote" /\ probe[1].pc # "init") ~> (probe[1].pc = "done")
    /\ []C23_DeadlineArmed

\* the call of a probe with the given method has settled
CallSettled(p, method) ==
    IF method = "HEAD" THEN p.headSeen # Null ELSE p.getSeen # Null

\* C24: the deadline timer of a network call is released on every exit path:
\* once fetchWithTimeout has settled (response, transport failure or abort by
\* timeout) its timer is not armed, an armed timer belongs to a call in flight,
\* so no timer of a finished call can fire, and at most one timer per probe is
\* armed at any time.
C24_TimerReleased ==
    \A i \in ProbeIds :
        LET p == probe[i]
        IN /\ \A m \in Methods :
                /\ CallSettled(p, m) => p.timer[m] \in {"cleared", "fired"}
                /\ p.timer[m] = "armed" => (m \in p.net /\ ~CallSettled(p, m))
                /\ p.timer[m] = "fired" <=> p.aborted[m]
           /\ Cardinality({m \in Methods : p.timer[m] = "armed"}) <= 1
           /\ p.pc \in {"body", "done", "threw"} =>
                \A m \in Methods : p.timer[m] # "armed"

C24_Witness ==
    \E i \in ProbeIds :
        /\ probe[i].pc = "get"
        /\ HeadOk(probe[i])
        /\ probe[i].timer = [HEAD |-> "cleared", GET |-> "armed"]

\* a step in which the deadline timer of probe i fires
TimeoutIn(i) ==
    \E m \in Methods : probe[i].timer[m] = "armed" /\ probe'[i].timer[m] = "fired"

\* a timeout in one probe leaves every other probe as it was
C25_TimeoutStep ==
    \A i \in ProbeIds :
        TimeoutIn(i) => \A j \in ProbeIds \ {i} : probe'[j] = probe[j]

\* each call has its own deadline and signal: a call is aborted only by its own
\* timer, and the GET call starts with a fresh timer and an unaborted signal
\* whatever happened to the HEAD call
C25_OwnDeadline ==
    \A i \in ProbeIds :
        LET p == probe[i]
        IN /\ \A m \in Methods : p.aborted[m] => p.timer[m] = "fired"
           /\ p.pc = "get" => p.timer.GET \in {"armed", "fired"}
           /\ (p.getSeen # Null /\ p.getSeen[1].error.name = "AbortError") =>
                 p.timer.GET = "fired"
           /\ (p.headSeen # Null /\ p.headSeen[1].error.name = "AbortError") =>
                 p.timer.HEAD = "fired"

\* C25: cancellation is scoped to one call: HEAD and ranged GET each get a
\* fresh deadline and abort signal, a timeout cancels only the call it was
\* armed for (a HEAD timeout does not abort the following GET), and under any
\* interleaving of concurrently running probes a timeout in one target's probe
\* never changes another target's probe.
C25_CancellationScoped == []C25_OwnDeadline /\ [][C25_TimeoutStep]_vars

C25_Witness ==
    \E i, j \in ProbeIds :
        /\ i # j
        /\ HeadTimedOut(probe[i])
        /\ GetOk(probe[i])
        /\ probe[i].pc = "done"
        /\ probe[j].pc = "done"
        /\ probe[j].result.status = "OK(HEAD); OK(Range)"

\* the token a phase that ended in a rejection is to be recorded with: the
\* timeout token when the phase's deadline fired, the failure token otherwise
PhaseToken(phase, deadline, seen) ==
    IF deadline = "fired" THEN phase \o " timeout"
    ELSE phase \o " failed: " \o seen.error.message

\* C26: a phase that ends because its deadline was exceeded is recorded with
\* its timeout token ("HEAD timeout" / "GET timeout") and never with a "failed"
\* token; a phase that ends by any other transport failure is recorded with
\* "<phase> failed: <message>" and never with the timeout token; the HEAD
\* token comes first and the GET phase's token after it.
C26_TimeoutTokenDistinct ==
    \A i \in ProbeIds :
        LET p == probe[i]
            msgs == p.statusMessages
        IN p.kind = "remote" =>
              /\ (p.headSeen # Null /\ p.headSeen[1].ev = "error") =>
                    /\ Len(msgs) >= 1
                    /\ msgs[1] = PhaseToken("HEAD", p.timer.HEAD, p.headSeen[1])
              /\ (p.getSeen # Null /\ p.getSeen[1].ev = "error") =>
                    /\ Len(msgs) = 2
                    /\ msgs[2] = PhaseToken("GET", p.timer.GET, p.getSeen[1])
              /\ (p.bodySeen # Null /\ p.bodySeen[1].ev = "error") =>
                    /\ Len(msgs) = 3
                    /\ msgs[3] = "GET failed: " \o p.bodySeen[1].error.message
              /\ \A k \in 1..Len(msgs) :
                    /\ msgs[k] = "HEAD timeout" => (k = 1 /\ p.timer.HEAD = "fired")
                    /\ msgs[k] = "GET timeout" => (k = 2 /\ p.timer.GET = "fired")
              /\ p.timer.HEAD = "fired" /\ p.headSeen # Null => msgs[1] = "HEAD timeout"
              /\ p.timer.GET = "fired" /\ p.getSeen # Null => msgs[2] = "GET timeout"

C26_Witness ==
    \E i \in ProbeIds :
        /\ probe[i].pc = "done"
        /\ probe[i].timer = [HEAD |-> "fired", GET |-> "fired"]
        /\ probe[i].result.status = "HEAD timeout; GET timeout"

\* ---- the run, continued
\* the aggregation step leaves the pool's results and the probes' records as
\* they were and renders rows that are new objects
C27_AggregateStep ==
    (runPc = "probing" /\ runPc' = "rendered") =>
        /\ output' = output
        /\ value' = value
        /\ probe' = probe
        /\ Len(rows') = Len(output)
        /\ \A k \in 1..Len(output) : DOMAIN rows'[k] # DOMAIN output[k]

\* a result slot is written once, by its own worker, with its own probe's record
C27_SlotStep ==
    \A i \in 1..Len(items) :
        /\ value'[i] # value[i] =>
              /\ value[i] = Null
              /\ value'[i] = Some(WorkerRow(items[i], probe[i].result))
        /\ probe'[i].result # probe[i].result =>
              \A j \in 1..Len(items) : j # i => probe'[j] = probe[j]

C27_ResultsIntact ==
    runPc = "rendered" =>
        /\ Len(output) = Len(items)
        /\ \A k \in 1..Len(output) : output[k] = WorkerRow(items[k], probe[k].result)

\* C27: aggregation does not mutate its inputs: after decorating and sorting,
\* the sequence of probe results returned by the pool has the same order and
\* field values as before, the rows being new objects in a new sequence; and
\* no probe's result slot is written by any other probe.
C27_InputsNotMutated ==
    /\ [][C27_AggregateStep /\ C27_SlotStep]_vars
    /\ []C27_ResultsIntact

C27_Witness ==
    /\ runPc = "rendered"
    /\ Len(rows) = 2
    /\ rows[1].id = output[2].id
    /\ rows[2].id = output[1].id
    /\ output[1].id = items[1].id

\* ---- the collector
\* the references sighted so far, each with the file it was found in
Sightings ==
    UNION {{[reference |-> files[n].content[1][k], file |-> PathText(files[n].path)] :
               k \in 1..Len(files[n].content[1])} :
           n \in {m \in 1..scanned : ~files[m].image /\ files[m].content # Null}}

\* the canonical URL of a remote reference: a protocol-relative one is https
IsRemote(reference) ==
    \/ StartsWith(reference, <<"/", "/">>)
    \/ StartsWith(reference, HttpPrefix)
    \/ StartsWith(reference, HttpsPrefix)
Canonical(reference) ==
    IF StartsWith(reference, <<"/", "/">>) THEN "https:" \o Str(reference)
    ELSE Str(reference)

\* the metadata record a prober might return for a target
SomeRecord(target) ==
    [target |-> target.request, size |-> Null, status |-> "Unknown",
     width |-> Null, height |-> Null]

C28_OnePerIdentity ==
    /\ \A j, k \in 1..Len(targetMap) : targetMap[j].id = targetMap[k].id => j = k
    /\ \A j, k \in 1..Len(targetMap) :
          (targetMap[j].type = targetMap[k].type
             /\ targetMap[j].request = targetMap[k].request) => j = k
    /\ \A sighting \in Sightings :
          IsRemote(sighting.reference) =>
             \E k \in 1..Len(targetMap) :
                /\ targetMap[k].type = "remote"
                /\ targetMap[k].request = Canonical(sighting.reference)
                /\ sighting.file \in targetMap[k].sources
    /\ \A k \in 1..Len(targetMap) :
          targetMap[k].type = "remote" =>
             targetMap[k].sources =
                {sighting.file : sighting \in
                    {x \in Sightings : /\ IsRemote(x.reference)
                                       /\ Canonical(x.reference) = targetMap[k].request}}

C28_OccurrencesAreSources ==
    \A k \in 1..Len(targetMap) :
        LET row == Decorate(targetMap, WorkerRow(targetMap[k], SomeRecord(targetMap[k])))
        IN /\ row.occurrences = Cardinality(targetMap[k].sources)
           /\ row.occurrences >= 1

\* scanning one more file keeps every target in its place and only adds sources
C28_GrowStep ==
    /\ Len(targetMap') >= Len(targetMap)
    /\ \A k \in 1..Len(targetMap) :
          /\ targetMap'[k].id = targetMap[k].id
          /\ targetMap[k].sources \subseteq targetMap'[k].sources

\* C28: collection keeps one target per canonical identity: references that
\* normalize to the same id (a protocol-relative //h/a.png and https://h/a.png)
\* collapse to a single target, whose sources set only grows as more files are
\* scanned, and a report row's occurrences is the size of the sources set of
\* the target with the row's id, hence at least 1.
C28_OneTargetPerIdentity ==
    /\ []C28_OnePerIdentity
    /\ []C28_OccurrencesAreSources
    /\ [][C28_GrowStep]_vars

C28_Witness ==
    /\ runPc = "start"
    /\ \E k \in 1..Len(targetMap) :
          /\ targetMap[k].id = "remote::https://h/a.png"
          /\ targetMap[k].sources = {"/w/x.html", "/w/y.md"}
          /\ Decorate(targetMap, WorkerRow(targetMap[k], SomeRecord(targetMap[k]))).occurrences = 2
    /\ \E k \in 1..Len(targetMap) : targetMap[k].id = "local::/w/c.png"
====
